---------------------------- MODULE Spec2Model ----------------------------
(***************************************************************************)
(* pay402-axios: the response interceptor installed by                     *)
(* withPay402Interceptor (src/src/index.ts) on an axios client.            *)
(*                                                                         *)
(* JavaScript strings that the code inspects (truthiness, includes, the    *)
(* regular expression) are sequences of one-character strings.  Opaque     *)
(* identifiers (addresses, URLs, tokens) are TLA+ strings.                 *)
(***************************************************************************)
EXTENDS Integers, Sequences, FiniteSets, TLC

VARIABLES
    interceptors,   \* axiosInstance.interceptors.response, in registration order
    setups,         \* history: the calls of withPay402Interceptor so far
    calls,          \* the requests issued through the client, in order of issue
    acts,           \* history: the activations of the pay402 failure handler
    toIssue,        \* the requests the application has still to issue
    challenge,      \* extraction check: the 402 body under inspection
    derived         \* extraction check: what the handler derived from it

vars == <<interceptors, setups, calls, acts, toIssue, challenge, derived>>

----------------------------------------------------------------------------
(* Bounds of the model *)

MaxDepth == 2       \* retries of retries: a request of this depth is not retried
MaxAccepts == 3     \* entries of a challenge's accept list
MaxSetups == 2      \* calls of withPay402Interceptor on the client

----------------------------------------------------------------------------
(* Strings *)

targetDescription ==
    <<"P","A","Y","4","0","2"," ","i","s"," ","d","e","t","e","c","t","e","d",
      " ","o","n"," ","t","h","i","s"," ","s","e","r","v","e","r"," ","f","o",
      "r"," ","g","a","s","-","f","r","e","e"," ","t","r","a","n","s","f","e",
      "r","s">>

ScenarioATail ==
    <<"."," ","S","e","n","d"," ","0",".","0","6","6"," ","P","A","Y"," ","o",
      "r"," ","t","h","e"," ","U","S","D","C"," ","a","m","o","u","n","t"," ",
      "v","i","a"," ","1","0","0","P","a","y"," ","I","n","t","e","r","n","a",
      "l"," ","t","r","a","n","s","f","e","r",".">>

ScenarioBDescription ==
    <<"S","t","a","n","d","a","r","d"," ","x","4","0","2"," ","p","a","y","m",
      "e","n","t"," ","r","e","q","u","i","r","e","d",".">>

SendLit == <<"S","e","n","d">>

PayLit == <<"P","A","Y">>

UsdCoin == <<"U","S","D"," ","C","o","i","n">>

Amount14000 == <<"1","4","0","0","0">>

AssetId == <<"0","x","8","3","3","5">>

Empty == <<>>

\* JavaScript truthiness of a string: the empty string is falsy.
Truthy(s) == s # <<>>

\* \s of the regular expression, over the characters the descriptions use.
Space == {" ", "\t", "\n"}

\* [\d.] of the regular expression.
AmountChars == {"0","1","2","3","4","5","6","7","8","9","."}

\* String.prototype.includes.
Includes(s, t) ==
    \E i \in 1..(Len(s) - Len(t) + 1) : SubSeq(s, i, i + Len(t) - 1) = t

\* The end (exclusive) of the longest run of characters of the class that
\* starts at position i of s.
RunEnd(s, i, class) ==
    CHOOSE j \in i..(Len(s) + 1) :
        /\ \A k \in i..(j - 1) : s[k] \in class
        /\ (j = Len(s) + 1 \/ s[j] \notin class)

\* /Send\s+([\d.]+)\s+PAY/ anchored at position i of s.  The character
\* classes of adjacent pieces are disjoint, so each + takes the whole run.
MatchAt(s, i) ==
    LET a == i + Len(SendLit)
        b == RunEnd(s, a, Space)
        c == RunEnd(s, b, AmountChars)
        d == RunEnd(s, c, Space)
    IN  /\ a - 1 <= Len(s)
        /\ SubSeq(s, i, a - 1) = SendLit
        /\ b > a
        /\ c > b
        /\ d > c
        /\ d + Len(PayLit) - 1 <= Len(s)
        /\ SubSeq(s, d, d + Len(PayLit) - 1) = PayLit

\* Capture group 1 of the match anchored at i.
GroupAt(s, i) ==
    LET a == i + Len(SendLit)
        b == RunEnd(s, a, Space)
        c == RunEnd(s, b, AmountChars)
    IN  SubSeq(s, b, c - 1)

\* description.match(/Send\s+([\d.]+)\s+PAY/): the leftmost match.
amountMatch(description) ==
    LET at == {i \in 1..Len(description) : MatchAt(description, i)}
    IN  IF at = {}
        THEN [matched |-> FALSE, group |-> Empty]
        ELSE LET i == CHOOSE m \in at : \A n \in at : m <= n
             IN  [matched |-> TRUE, group |-> GroupAt(description, i)]

----------------------------------------------------------------------------
(* The 402 body (Pay402Response, Pay402Accept of src/src/types.ts) *)

\* extra is of type any: it may carry no name, or an empty one.
NoName == [hasName |-> FALSE, name |-> Empty]

Named(n) == [hasName |-> TRUE, name |-> n]

Accept(desc, amount, asset, extra, payTo, resource) ==
    [description |-> desc, maxAmountRequired |-> amount, asset |-> asset,
     extra |-> extra, payTo |-> payTo, resource |-> resource]

\* error.response.data: absent, without an accept list, or with one.
NoData == [hasData |-> FALSE, hasAccepts |-> FALSE, accepts |-> <<>>]

NoAccepts == [hasData |-> TRUE, hasAccepts |-> FALSE, accepts |-> <<>>]

Body(accepts) == [hasData |-> TRUE, hasAccepts |-> TRUE, accepts |-> accepts]

\* acceptOption.extra?.name || acceptOption.asset
AssetLabel(opt) ==
    IF opt.extra.hasName /\ Truthy(opt.extra.name)
    THEN opt.extra.name
    ELSE opt.asset

\* A variant that takes any entry with a description.
IsTargetAnyDescription(opt) == Truthy(opt.description)

\* opt.description && opt.description.includes(targetDescription)
IsTarget(opt) ==
    Truthy(opt.description) /\ Includes(opt.description, targetDescription)

\* A variant that takes the last entry that matches.
FindLastAccept(data) ==
    IF data.hasData /\ data.hasAccepts /\ Len(data.accepts) > 0
    THEN LET hit == {i \in 1..Len(data.accepts) : IsTarget(data.accepts[i])}
         IN  IF hit = {} THEN 0
             ELSE CHOOSE i \in hit : \A j \in hit : i >= j
    ELSE 0

\* data.accepts.find(...): the index of the first entry that matches, 0 when
\* there is none (find returns undefined) or the list is missing or empty.
FindAccept(data) ==
    IF data.hasData /\ data.hasAccepts /\ Len(data.accepts) > 0
    THEN LET hit == {i \in 1..Len(data.accepts) : IsTarget(data.accepts[i])}
         IN  IF hit = {} THEN 0
             ELSE CHOOSE i \in hit : \A j \in hit : i <= j
    ELSE 0

\* The option pushed from the description's "Send <amount> PAY".
PayOption(opt) ==
    LET m == amountMatch(opt.description)
    IN  IF m.matched /\ Truthy(m.group)
        THEN <<[amount |-> m.group, currency |-> PayLit, payTo |-> opt.payTo]>>
        ELSE <<>>

\* A variant that offers the default asset only in place of the PAY amount.
AssetOptionUnlessPay(opt) ==
    IF ~amountMatch(opt.description).matched
       /\ Truthy(opt.maxAmountRequired) /\ Truthy(opt.asset)
    THEN <<[amount |-> opt.maxAmountRequired, currency |-> AssetLabel(opt),
            payTo |-> opt.payTo]>>
    ELSE <<>>

\* The option pushed from the entry's default asset.
AssetOption(opt) ==
    IF Truthy(opt.maxAmountRequired) /\ Truthy(opt.asset)
    THEN <<[amount |-> opt.maxAmountRequired, currency |-> AssetLabel(opt),
            payTo |-> opt.payTo]>>
    ELSE <<>>

\* A variant that pushes the default asset first.
PricingAssetFirst(opt) == AssetOption(opt) \o PayOption(opt)

\* The pricing array the handler builds for the matched entry.
Pricing(opt) == PayOption(opt) \o AssetOption(opt)

----------------------------------------------------------------------------
(* Requests, errors and settled values *)

PaymentRequired == 402

HeaderNames == {"accept", "x-pay402"}

Absent == "-"

NoFields == [h \in HeaderNames |-> Absent]

\* config.headers: undefined, or an object with some fields set.
NoHeaders == [hasHeaders |-> FALSE, fields |-> NoFields]

Headers(f) == [hasHeaders |-> TRUE, fields |-> f]

Config(method, url, data, headers) ==
    [method |-> method, url |-> url, data |-> data, headers |-> headers]

\* A variant that replaces the header set by one with the payment alone.
WithPaymentOnly(config, transactionId) ==
    [config EXCEPT !.headers =
        Headers([NoFields EXCEPT !["x-pay402"] = transactionId])]

\* if (!error.config.headers) error.config.headers = {};
\* error.config.headers['x-pay402'] = transactionId;
WithPayment(config, transactionId) ==
    [config EXCEPT !.headers =
        Headers([(IF @.hasHeaders THEN @.fields ELSE NoFields)
                    EXCEPT !["x-pay402"] = transactionId])]

\* An error object.  src and n are its identity: the error the adapter threw
\* for call n, the n-th error the payer can throw, the error the x402
\* handler made for call n.
Error(src, n, hasResponse, status, data, hasConfig) ==
    [src |-> src, n |-> n, hasResponse |-> hasResponse, status |-> status,
     data |-> data, hasConfig |-> hasConfig]

NoError == Error("none", 0, FALSE, 0, NoData, FALSE)

NoResponse == [src |-> "none", n |-> 0]

Pending == [kind |-> "pending", resp |-> NoResponse, err |-> NoError]

Resolved(src, n) ==
    [kind |-> "resolve", resp |-> [src |-> src, n |-> n], err |-> NoError]

Rejected(e) == [kind |-> "reject", resp |-> NoResponse, err |-> e]

\* error.response && error.response.status === 402
Is402(e) == e.hasResponse /\ e.status = PaymentRequired

----------------------------------------------------------------------------
(* What the environment may do: the application's requests, the server's  *)
(* answers, the payer's answers, the x402 handler's answers                *)

ScenarioA ==
    Accept(targetDescription \o ScenarioATail, Amount14000, AssetId,
           Named(UsdCoin), "0x37ff", "/api/pay-for-order")

ScenarioB ==
    Accept(ScenarioBDescription, <<"1","0","0">>, <<"0","x">>, NoName,
           "0x123", "/api/other")

\* The marker, and nothing to pay with: no PAY amount, no asset.
MarkerOnly ==
    Accept(targetDescription, Amount14000, Empty, NoName, "0x4444", "/api/none")

\* The marker and the PAY amount, no default asset.
PayOnly ==
    Accept(targetDescription \o <<" ">> \o SendLit \o <<" ","5"," ">> \o PayLit,
           Empty, AssetId, NoName, "0x5555", "/api/pay-only")

Challenges ==
    { NoData, NoAccepts, Body(<<>>), Body(<<ScenarioB>>), Body(<<MarkerOnly>>),
      Body(<<ScenarioA>>), Body(<<ScenarioB, PayOnly>>) }

RequestConfigs ==
    { Config("GET", "/a", "", NoHeaders),
      Config("POST", "/b", "body",
             Headers([NoFields EXCEPT !["accept"] = "xml",
                                      !["x-pay402"] = "stale"])) }

Tokens == {"tx1", "tx2"}

PayerErrors == {1}

\* The failures the adapter can throw for call c.
AdapterErrors(c) ==
    { Error("adapter", c, FALSE, 0, NoData, TRUE),
      Error("adapter", c, TRUE, 500, NoData, TRUE),
      Error("adapter", c, TRUE, 500, Body(<<ScenarioA>>), TRUE) }
    \cup { Error("adapter", c, TRUE, PaymentRequired, d, TRUE) :
             d \in Challenges }
    \cup { Error("adapter", c, TRUE, PaymentRequired, Body(<<ScenarioA>>), FALSE) }

----------------------------------------------------------------------------
(* The pay402 failure handler, src/src/index.ts lines 22-86 *)

\* A variant without the status test of line 23.
MatchedAnyStatus(e) == FindAccept(e.data)

\* Lines 23-37: the index of the accept entry the handler works on, 0 when
\* the failure is no 402 with a matching entry.
Matched(e) == IF Is402(e) THEN FindAccept(e.data) ELSE 0

\* Lines 39-60: what the handler derives from the failure: the matched
\* entry, the pricing array and the resource it hands to signTransaction.
Extraction(e) ==
    LET i == Matched(e)
    IN  IF i = 0
        THEN [entry |-> 0, pricing |-> <<>>, resource |-> ""]
        ELSE [entry |-> i, pricing |-> Pricing(e.data.accepts[i]),
              resource |-> e.data.accepts[i].resource]

\* A variant without the test of line 62.
WillPayWhenMatched(e) == Extraction(e).entry > 0

\* A variant that joins a payment already under way for the same resource.
WillPayUnlessPending(e) ==
    /\ Len(Extraction(e).pricing) > 0
    /\ ~\E a \in DOMAIN acts :
          acts[a].payer = "pending" /\ acts[a].resource = Extraction(e).resource

\* Line 62: the handler pays only with a non-empty pricing array.
WillPay(e) == Len(Extraction(e).pricing) > 0

\* Line 85: return Promise.reject(error).
Deferred(e) == Rejected(e)

\* A variant that surfaces the 402 instead of the payer's error.
SignFailedWithOriginal(e, signError) == Rejected(e)

\* Lines 76-79: the handler was given e and signTransaction threw signError:
\* return Promise.reject(signError).
SignFailed(e, signError) == Rejected(signError)

----------------------------------------------------------------------------
(* The client *)

Call(parent, depth, config, chain) ==
    [parent |-> parent, depth |-> depth, sent |-> config, config |-> config,
     chain |-> chain, pos |-> 0,
     pc |-> "dispatch", val |-> Pending, act |-> 0, trail |-> <<>>]

\* The promise chain of a request: the value v goes to the next handler pair
\* of the chain, or to the caller when there is none left.
Settle(call, v) ==
    [call EXCEPT !.val = v, !.pos = @ + 1,
                 !.pc = IF call.pos + 1 > Len(call.chain) THEN "done"
                        ELSE "chain"]

Seen(call, h) ==
    Append(call.trail, [h |-> h, src |-> call.val.err.src,
                        n |-> call.val.err.n, is402 |-> Is402(call.val.err)])

Act(c, call) ==
    [call |-> c, pos |-> call.pos, err |-> call.val.err,
     before |-> call.config, entry |-> Extraction(call.val.err).entry,
     pricing |-> Extraction(call.val.err).pricing,
     resource |-> Extraction(call.val.err).resource,
     payer |-> "none", token |-> "", signErr |-> NoError, retry |-> 0,
     out |-> Pending]

InFlight(c) == c \in DOMAIN calls /\ calls[c].pc = "chain"

\* The handler pair a settled value goes to next.  axios runs the response
\* interceptors of a request in the order of their registration (it pushes
\* each pair onto the promise chain as it walks the registered handlers from
\* the first to the last), so position 1 of the chain is the pair
\* withPaymentInterceptor registered on line 18 and the pair of line 20
\* follows it.
Handler(c) == calls[c].chain[calls[c].pos]

\* A variant that leaves a client alone that carries the pairs already.
RegisteredOnce(chain) ==
    IF chain = <<>> THEN <<"x402", "pay402">> ELSE chain

\* withPay402Interceptor: withPaymentInterceptor registers the x402 pair
\* (line 18), then the pay402 pair is registered (line 20).
Registered(chain) == chain \o <<"x402", "pay402">>

\* The client before withPay402Interceptor has wrapped it.
InitClient ==
    /\ interceptors = <<>>
    /\ setups = 0
    /\ calls = <<>>
    /\ acts = <<>>
    /\ toIssue = 0
    /\ challenge = NoData
    /\ derived = [done |-> FALSE, entry |-> 0, pricing |-> <<>>, resource |-> ""]

\* The client that withPay402Interceptor has wrapped once.
Init ==
    /\ interceptors = Registered(<<>>)
    /\ setups = 1
    /\ calls = <<>>
    /\ acts = <<>>
    /\ toIssue = 1
    /\ challenge = NoData
    /\ derived = [done |-> FALSE, entry |-> 0, pricing |-> <<>>, resource |-> ""]

\* withPay402Interceptor(axiosInstance, signTransaction, walletClient).
Setup ==
    /\ setups < MaxSetups
    /\ setups' = setups + 1
    /\ interceptors' = Registered(interceptors)
    /\ UNCHANGED <<calls, acts, toIssue, challenge, derived>>

\* The application calls axiosInstance.request(config).
Request(config) ==
    /\ toIssue > 0
    /\ toIssue' = toIssue - 1
    /\ calls' = Append(calls, Call(0, 0, config, interceptors))
    /\ UNCHANGED <<interceptors, setups, acts, challenge, derived>>

\* The adapter answers call c: a response, or a thrown error.
Adapter(c, v) ==
    /\ c \in DOMAIN calls
    /\ calls[c].pc = "dispatch"
    /\ calls' = [calls EXCEPT ![c] = Settle(@, v)]
    /\ UNCHANGED <<interceptors, setups, acts, toIssue, challenge, derived>>

\* A success handler of the chain: (response) => response.
OnFulfilled(c) ==
    /\ InFlight(c)
    /\ calls[c].val.kind = "resolve"
    /\ calls' = [calls EXCEPT ![c] = Settle(@, @.val)]
    /\ UNCHANGED <<interceptors, setups, acts, toIssue, challenge, derived>>

\* The failure handler of x402-axios, an opaque collaborator: it rejects
\* with the error it got, rejects with an error of its own, or resolves with
\* a response it obtained.
X402OnRejected(c, v) ==
    /\ InFlight(c)
    /\ calls[c].val.kind = "reject"
    /\ Handler(c) = "x402"
    /\ v \in { Rejected(calls[c].val.err),
               Rejected(Error("x402", c, FALSE, 0, NoData, FALSE)),
               Resolved("x402", c) }
    /\ calls' = [calls EXCEPT ![c] =
                    Settle([calls[c] EXCEPT !.trail = Seen(calls[c], "x402")], v)]
    /\ UNCHANGED <<interceptors, setups, acts, toIssue, challenge, derived>>

\* The pay402 failure handler up to its first await: it defers, or calls
\* signTransaction(pricing, acceptOption.resource) and suspends.
Pay402OnRejected(c) ==
    /\ InFlight(c)
    /\ calls[c].val.kind = "reject"
    /\ Handler(c) = "pay402"
    /\ LET call == calls[c]
           e == call.val.err
           seen == [call EXCEPT !.trail = Seen(call, "pay402")]
       IN  IF WillPay(e)
           THEN /\ acts' = Append(acts, [Act(c, call) EXCEPT !.payer = "pending"])
                /\ calls' = [calls EXCEPT ![c] =
                                [seen EXCEPT !.pc = "signing",
                                             !.act = Len(acts) + 1]]
           ELSE /\ acts' = Append(acts, [Act(c, call) EXCEPT !.out = Deferred(e)])
                /\ calls' = [calls EXCEPT ![c] =
                                Settle([seen EXCEPT !.act = Len(acts) + 1],
                                       Deferred(e))]
    /\ UNCHANGED <<interceptors, setups, toIssue, challenge, derived>>

\* signTransaction resolves with transactionId: lines 68-75, and the fall
\* through to line 85 when the error carries no config.
PayerResolves(c, transactionId) ==
    /\ c \in DOMAIN calls
    /\ calls[c].pc = "signing"
    /\ LET call == calls[c]
           a == call.act
           e == acts[a].err
       IN  IF e.hasConfig
           THEN /\ call.depth < MaxDepth
                /\ LET config == WithPayment(call.config, transactionId)
                   IN  calls' = Append(
                           [calls EXCEPT ![c] =
                               [call EXCEPT !.config = config, !.pc = "retrying"]],
                           Call(c, call.depth + 1, config, interceptors))
                /\ acts' = [acts EXCEPT ![a] =
                               [@ EXCEPT !.payer = "resolved",
                                         !.token = transactionId,
                                         !.retry = Len(calls) + 1]]
           ELSE /\ calls' = [calls EXCEPT ![c] =
                                Settle([call EXCEPT !.pc = "chain"], Deferred(e))]
                /\ acts' = [acts EXCEPT ![a] =
                               [@ EXCEPT !.payer = "resolved",
                                         !.token = transactionId,
                                         !.out = Deferred(e)]]
    /\ UNCHANGED <<interceptors, setups, toIssue, challenge, derived>>

\* signTransaction rejects with signError: lines 76-79.
PayerRejects(c, signError) ==
    /\ c \in DOMAIN calls
    /\ calls[c].pc = "signing"
    /\ LET a == calls[c].act
           v == SignFailed(acts[a].err, signError)
       IN  /\ calls' = [calls EXCEPT ![c] =
                           Settle([calls[c] EXCEPT !.pc = "chain"], v)]
           /\ acts' = [acts EXCEPT ![a] =
                          [@ EXCEPT !.payer = "rejected", !.signErr = signError,
                                    !.out = v]]
    /\ UNCHANGED <<interceptors, setups, toIssue, challenge, derived>>

\* Line 74: the promise axiosInstance.request(error.config) returned has
\* settled; the handler's promise settles with it.
RetrySettles(c) ==
    /\ c \in DOMAIN calls
    /\ calls[c].pc = "retrying"
    /\ LET a == calls[c].act
           r == acts[a].retry
       IN  /\ calls[r].pc = "done"
           /\ calls' = [calls EXCEPT ![c] =
                           Settle([calls[c] EXCEPT !.pc = "chain"], calls[r].val)]
           /\ acts' = [acts EXCEPT ![a] = [@ EXCEPT !.out = calls[r].val]]
    /\ UNCHANGED <<interceptors, setups, toIssue, challenge, derived>>

Next ==
    \/ \E config \in RequestConfigs : Request(config)
    \/ \E c \in DOMAIN calls :
         \E v \in {Resolved("adapter", c)}
                    \cup {Rejected(e) : e \in AdapterErrors(c)} : Adapter(c, v)
    \/ \E c \in DOMAIN calls : OnFulfilled(c)
    \/ \E c \in DOMAIN calls :
         \E v \in { Rejected(calls[c].val.err),
                    Rejected(Error("x402", c, FALSE, 0, NoData, FALSE)),
                    Resolved("x402", c) } : X402OnRejected(c, v)
    \/ \E c \in DOMAIN calls : Pay402OnRejected(c)
    \/ \E c \in DOMAIN calls : \E t \in Tokens : PayerResolves(c, t)
    \/ \E c \in DOMAIN calls : \E k \in PayerErrors :
         PayerRejects(c, Error("payer", k, FALSE, 0, NoData, FALSE))
    \/ \E c \in DOMAIN calls : RetrySettles(c)

Spec == Init /\ [][Next]_vars

----------------------------------------------------------------------------
(* Two requests of the application that both hit a paywall *)

\* What the server answers there: a matching 402 to a request that carries
\* no payment yet; a response or a 500 to a retry.
PaywallAnswers(c) ==
    IF calls[c].depth = 0
    THEN { Rejected(Error("adapter", c, TRUE, PaymentRequired, d, TRUE)) :
             d \in {Body(<<ScenarioA>>), Body(<<ScenarioB, PayOnly>>)} }
    ELSE { Resolved("adapter", c),
           Rejected(Error("adapter", c, TRUE, 500, NoData, TRUE)) }

InitConcurrent ==
    /\ interceptors = Registered(<<>>)
    /\ setups = 1
    /\ calls = <<>>
    /\ acts = <<>>
    /\ toIssue = 2
    /\ challenge = NoData
    /\ derived = [done |-> FALSE, entry |-> 0, pricing |-> <<>>, resource |-> ""]

NextConcurrent ==
    \/ \E config \in RequestConfigs : Request(config)
    \/ \E c \in DOMAIN calls : \E v \in PaywallAnswers(c) : Adapter(c, v)
    \/ \E c \in DOMAIN calls : OnFulfilled(c)
    \/ \E c \in DOMAIN calls :
         \E v \in { Rejected(calls[c].val.err), Resolved("x402", c) } :
            X402OnRejected(c, v)
    \/ \E c \in DOMAIN calls : Pay402OnRejected(c)
    \/ \E c \in DOMAIN calls : \E t \in Tokens : PayerResolves(c, t)
    \/ \E c \in DOMAIN calls : \E k \in PayerErrors :
         PayerRejects(c, Error("payer", k, FALSE, 0, NoData, FALSE))
    \/ \E c \in DOMAIN calls : RetrySettles(c)

SpecConcurrent == InitConcurrent /\ [][NextConcurrent]_vars

----------------------------------------------------------------------------
(* The extraction alone, over a wider range of 402 bodies *)

\* The marker followed by a sentence.
Said(sentence) == targetDescription \o <<".", " ">> \o sentence

Descriptions ==
    { targetDescription \o ScenarioATail,
      ScenarioBDescription,
      targetDescription,
      Empty,
      SubSeq(targetDescription, 1, Len(targetDescription) - 1),
      SendLit \o <<" ","5"," ">> \o PayLit,
      Said(SendLit \o <<" ","5"," ">> \o PayLit \o <<"M","E","N","T">>),
      Said(SendLit \o <<" "," ","7","\t">> \o PayLit),
      Said(SendLit \o <<" ","1",".","2",".","3"," ">> \o PayLit),
      Said(SendLit \o <<" ","."," ">> \o PayLit),
      Said(SendLit \o <<" ","5">> \o PayLit),
      Said(<<"s","e","n","d"," ","5"," ">> \o PayLit),
      Said(SendLit \o <<" ","5"," ","p","a","y">>),
      Said(SendLit \o <<" ","x"," ">> \o PayLit \o <<" ">>
           \o SendLit \o <<" ","9"," ">> \o PayLit) }

Addresses == <<"0xA1", "0xA2", "0xA3", "0xA4", "0xA5">>

Resources == <<"/r1", "/r2", "/r3", "/r4", "/r5">>

\* Bodies with one accept entry, over every combination of its fields.
SingleBodies ==
    { Body(<<Accept(d, m, a, x, Addresses[1], Resources[1])>>) :
        d \in Descriptions, m \in {Empty, Amount14000}, a \in {Empty, AssetId},
        x \in {NoName, Named(Empty), Named(UsdCoin)} }

\* Bodies with several entries; the entry at position i pays to Addresses[i]
\* for Resources[i].
ListBodies ==
    UNION { { Body([i \in 1..n |->
                      [f[i] EXCEPT !.payTo = Addresses[i],
                                   !.resource = Resources[i]]]) :
                f \in [1..n -> {ScenarioA, ScenarioB, MarkerOnly, PayOnly}] } :
            n \in 2..MaxAccepts }

Bodies == {NoData, NoAccepts, Body(<<>>)} \cup SingleBodies \cup ListBodies

\* The failure the handler is given in the extraction check.
Failure(data) == Error("adapter", 1, TRUE, PaymentRequired, data, TRUE)

InitExtract ==
    /\ interceptors = Registered(<<>>)
    /\ setups = 1
    /\ calls = <<>>
    /\ acts = <<>>
    /\ toIssue = 0
    /\ challenge \in Bodies
    /\ derived = [done |-> FALSE, entry |-> 0, pricing |-> <<>>, resource |-> ""]

\* Lines 23-62 applied to the body.
Extract ==
    /\ ~derived.done
    /\ derived' = [done |-> TRUE,
                   entry |-> Extraction(Failure(challenge)).entry,
                   pricing |-> Extraction(Failure(challenge)).pricing,
                   resource |-> Extraction(Failure(challenge)).resource]
    /\ UNCHANGED <<interceptors, setups, calls, acts, toIssue, challenge>>

SpecExtract == InitExtract /\ [][Extract]_vars

----------------------------------------------------------------------------
(* Vocabulary of the properties *)

\* The value of header h in a header set; Absent when it is not set.
Field(headers, h) == IF headers.hasHeaders THEN headers.fields[h] ELSE Absent

\* Some accept entry's description contains the marker.
HasMarkerEntry(data) ==
    /\ data.hasData
    /\ data.hasAccepts
    /\ \E i \in DOMAIN data.accepts :
         Includes(data.accepts[i].description, targetDescription)

\* The activation re-issued nothing: every request re-issued for its call
\* is the retry of another activation.
NothingReissued(act) ==
    /\ act.retry = 0
    /\ \A c \in DOMAIN calls :
         calls[c].parent = act.call =>
             \E b \in DOMAIN acts : acts[b].retry = c /\ acts[b].pos # act.pos

\* The activation deferred: it rejected with the error it was given, the
\* payer was not called and nothing was re-issued.
PassedThrough(act) ==
    /\ act.out = Rejected(act.err)
    /\ act.payer = "none"
    /\ NothingReissued(act)

\* The request re-issued for an activation is the activation's own request
\* with x-pay402 set to the token and every other header as it was.
CarriesPayment(act) ==
    /\ act.retry \in DOMAIN calls
    /\ calls[act.retry].parent = act.call
    /\ calls[act.retry].sent.headers.hasHeaders
    /\ Field(calls[act.retry].sent.headers, "x-pay402") = act.token
    /\ \A h \in HeaderNames \ {"x-pay402"} :
         Field(calls[act.retry].sent.headers, h) = Field(act.before.headers, h)

----------------------------------------------------------------------------
(* C1 *)

\* C1: for every matching 402 whose payer resolves with token T, the retry
\* is issued only after the payer has resolved, the re-issued request carries
\* x-pay402 = T and every other original header unchanged (the header set is
\* created if absent), and the handler's outcome is that of the re-issued
\* request.
C1_OutcomeIsRetryOutcome ==
    \A a \in DOMAIN acts :
        /\ acts[a].retry # 0 => acts[a].payer = "resolved"
        /\ acts[a].payer = "resolved" =>
             /\ CarriesPayment(acts[a])
             /\ acts[a].out.kind # "pending" =>
                  /\ calls[acts[a].retry].pc = "done"
                  /\ acts[a].out = calls[acts[a].retry].val

\* C1, for the failures that carry their request config: the same.
C1_WithConfig ==
    \A a \in DOMAIN acts :
        /\ acts[a].retry # 0 => acts[a].payer = "resolved"
        /\ acts[a].payer = "resolved" /\ acts[a].err.hasConfig =>
             /\ CarriesPayment(acts[a])
             /\ acts[a].out.kind # "pending" =>
                  /\ calls[acts[a].retry].pc = "done"
                  /\ acts[a].out = calls[acts[a].retry].val

----------------------------------------------------------------------------
(* C2 *)

\* C2: a 402 in which no accept entry's description contains the marker is
\* rejected with the very error the handler was given, the payer is not
\* called and no request is re-issued.
C2_NoMarkerDefers ==
    \A a \in DOMAIN acts :
        Is402(acts[a].err) /\ ~HasMarkerEntry(acts[a].err.data)
            => PassedThrough(acts[a])

\* A 402 with accept entries, none with the marker, has been deferred.
C2_Witness ==
    \E a \in DOMAIN acts :
        /\ Is402(acts[a].err)
        /\ Len(acts[a].err.data.accepts) > 0
        /\ ~HasMarkerEntry(acts[a].err.data)
        /\ acts[a].out = Rejected(acts[a].err)

----------------------------------------------------------------------------
(* C3 *)

\* C3: the request is re-issued at most once and the payer is called at most
\* once per original request: a 402 that answers the re-issued request goes
\* to the caller as it is, with no second payer call and no second retry.
C3_NoSecondPayment ==
    \A a \in DOMAIN acts :
        calls[acts[a].call].depth > 0 => PassedThrough(acts[a])

----------------------------------------------------------------------------
(* C4 *)

\* C4: when the payer rejects with E the handler rejects with E, not with
\* the 402 it was given, and no request is re-issued.
C4_SignErrorSurfaces ==
    \A a \in DOMAIN acts :
        acts[a].payer = "rejected" =>
            /\ acts[a].out = Rejected(acts[a].signErr)
            /\ acts[a].out # Rejected(acts[a].err)
            /\ NothingReissued(acts[a])

\* The payer has rejected and the request has ended with the payer's error.
C4_Witness ==
    \E a \in DOMAIN acts :
        /\ acts[a].payer = "rejected"
        /\ acts[a].signErr.src = "payer"
        /\ calls[acts[a].call].pc = "done"
        /\ calls[acts[a].call].val = Rejected(acts[a].signErr)

----------------------------------------------------------------------------
(* C5 *)

\* C5: a failure that is no 402, or a 402 without a body or without an
\* accept list, is rejected unchanged; the payer is not called and nothing
\* is re-issued.
C5_Not402Defers ==
    \A a \in DOMAIN acts :
        \/ ~Is402(acts[a].err)
        \/ ~acts[a].err.data.hasData
        \/ ~acts[a].err.data.hasAccepts
        => PassedThrough(acts[a])

\* A failure with another status whose body carries the marker has been
\* deferred.
C5_Witness ==
    \E a \in DOMAIN acts :
        /\ ~Is402(acts[a].err)
        /\ HasMarkerEntry(acts[a].err.data)
        /\ acts[a].out = Rejected(acts[a].err)

----------------------------------------------------------------------------
(* C6 *)

\* The entry gives nothing to pay with: no "Send <number> PAY" in its
\* description, and an empty required amount or an empty asset.
NothingToPay(opt) ==
    /\ ~amountMatch(opt.description).matched
    /\ (opt.maxAmountRequired = Empty \/ opt.asset = Empty)

\* C6: a 402 whose matched entry yields no option is rejected with the
\* original error; the payer is not called and nothing is re-issued.
C6_EmptyPricingDefers ==
    \A a \in DOMAIN acts :
        /\ Is402(acts[a].err)
        /\ acts[a].entry > 0
        /\ NothingToPay(acts[a].err.data.accepts[acts[a].entry])
        => PassedThrough(acts[a])

\* A 402 with a matched entry and nothing to pay with has been deferred.
C6_Witness ==
    \E a \in DOMAIN acts :
        /\ Is402(acts[a].err)
        /\ acts[a].entry > 0
        /\ HasMarkerEntry(acts[a].err.data)
        /\ NothingToPay(acts[a].err.data.accepts[acts[a].entry])
        /\ acts[a].out = Rejected(acts[a].err)

----------------------------------------------------------------------------
(* C7 *)

\* The matched entry of the body under inspection.
MatchedEntry == challenge.accepts[derived.entry]

\* The entry has the PAY amount in its description and a non-empty required
\* amount and asset.
BothRules(opt) ==
    /\ amountMatch(opt.description).matched
    /\ opt.maxAmountRequired # Empty
    /\ opt.asset # Empty

\* The two options, in order, with the given label on the second.
TwoOptions(opt, label) ==
    << [amount |-> amountMatch(opt.description).group, currency |-> PayLit,
        payTo |-> opt.payTo],
       [amount |-> opt.maxAmountRequired, currency |-> label,
        payTo |-> opt.payTo] >>

\* C7 as stated: with both rules satisfied the pricing has exactly two
\* entries, the PAY option first, then the required amount labelled with
\* extra.name if present, else with the asset; both pay to the entry's payTo.
C7_LabelIfPresent ==
    derived.done /\ derived.entry > 0 /\ BothRules(MatchedEntry)
        => derived.pricing =
             TwoOptions(MatchedEntry,
                        IF MatchedEntry.extra.hasName
                        THEN MatchedEntry.extra.name
                        ELSE MatchedEntry.asset)

\* C7 as amended: the second option is labelled with extra.name if it is
\* present and not empty, else with the asset.
C7_LabelIfNonEmpty ==
    derived.done /\ derived.entry > 0 /\ BothRules(MatchedEntry)
        => derived.pricing =
             TwoOptions(MatchedEntry,
                        IF MatchedEntry.extra.hasName
                           /\ MatchedEntry.extra.name # Empty
                        THEN MatchedEntry.extra.name
                        ELSE MatchedEntry.asset)

\* Scenario A of the specification: 0.066 PAY, then 14000 USD Coin.
C7_Witness ==
    /\ derived.done
    /\ derived.entry = 1
    /\ challenge.accepts[1].description = targetDescription \o ScenarioATail
    /\ derived.pricing =
         << [amount |-> <<"0",".","0","6","6">>, currency |-> PayLit,
             payTo |-> Addresses[1]],
            [amount |-> Amount14000, currency |-> UsdCoin,
             payTo |-> Addresses[1]] >>

----------------------------------------------------------------------------
(* C8 *)

\* C8: the pay402 failure handler evaluates every 402 before the x402
\* handler does; the x402 handler sees a 402 only after the pay402 handler
\* has rejected with it.
C8_Pay402First ==
    \A c \in DOMAIN calls :
        \A i \in DOMAIN calls[c].trail :
            calls[c].trail[i].h = "x402" /\ calls[c].trail[i].is402
                => \E j \in 1..(i - 1) :
                      /\ calls[c].trail[j].h = "pay402"
                      /\ calls[c].trail[j].src = calls[c].trail[i].src
                      /\ calls[c].trail[j].n = calls[c].trail[i].n

----------------------------------------------------------------------------
(* C9 *)

\* Entry i of the body contains the marker.
MarkerAt(i) == Includes(challenge.accepts[i].description, targetDescription)

\* C9: of several accept entries only the first whose description contains
\* the marker is used, whatever follows it: the options' amounts and
\* destination and the resource handed to the payer are that entry's.
C9_FirstMatchOnly ==
    derived.done =>
        \A k \in DOMAIN challenge.accepts :
            MarkerAt(k) /\ (\A j \in 1..(k - 1) : ~MarkerAt(j)) =>
                /\ derived.entry = k
                /\ derived.resource = challenge.accepts[k].resource
                /\ \A o \in DOMAIN derived.pricing :
                     /\ derived.pricing[o].payTo = challenge.accepts[k].payTo
                     /\ derived.pricing[o].amount \in
                          { amountMatch(challenge.accepts[k].description).group,
                            challenge.accepts[k].maxAmountRequired }

\* Two entries carry the marker, the first of them after an entry without
\* it, and the options were derived from the first.
C9_Witness ==
    /\ derived.done
    /\ \E i, j \in DOMAIN challenge.accepts :
         /\ 1 < i /\ i < j
         /\ ~MarkerAt(1) /\ MarkerAt(i) /\ MarkerAt(j)
         /\ challenge.accepts[i].payTo # challenge.accepts[j].payTo
         /\ derived.entry = i
         /\ Len(derived.pricing) > 0
         /\ derived.pricing[1].payTo = challenge.accepts[i].payTo

----------------------------------------------------------------------------
(* C10 *)

\* The pay402 handler of call c has been given a 402.
Reached(c) ==
    \E i \in DOMAIN calls[c].trail :
        calls[c].trail[i].h = "pay402" /\ calls[c].trail[i].is402

\* The activations that called the payer.
Payments == {a \in DOMAIN acts : acts[a].payer # "none"}

\* C10: two requests that hit matching 402s each call the payer on their
\* own, whatever the other is doing and also for the same resource, and each
\* re-issued request carries the token of its own payer call and its own
\* original headers.
C10_Independent ==
    /\ \A c \in DOMAIN calls :
         calls[c].depth = 0 /\ Reached(c) =>
             Cardinality({a \in Payments : acts[a].call = c}) = 1
    /\ Cardinality(Payments) =
         Cardinality({c \in DOMAIN calls : calls[c].depth = 0 /\ Reached(c)})
    /\ \A a \in DOMAIN acts :
         acts[a].retry # 0 =>
             /\ CarriesPayment(acts[a])
             /\ \A h \in HeaderNames \ {"x-pay402"} :
                  Field(calls[acts[a].retry].sent.headers, h)
                     = Field(calls[acts[a].call].sent.headers, h)

\* Both requests were re-issued for the same resource, with different tokens
\* and different original headers.
C10_Witness ==
    \E a, b \in DOMAIN acts :
        /\ acts[a].call # acts[b].call
        /\ acts[a].resource = acts[b].resource
        /\ acts[a].retry # 0 /\ acts[b].retry # 0
        /\ acts[a].token # acts[b].token
        /\ acts[a].before.headers # acts[b].before.headers
        /\ calls[acts[a].retry].pc = "dispatch"
        /\ calls[acts[b].retry].pc = "dispatch"

----------------------------------------------------------------------------
(* A client that withPay402Interceptor wraps once or more, at any time *)

InitSetup ==
    /\ interceptors = <<>>
    /\ setups = 0
    /\ calls = <<>>
    /\ acts = <<>>
    /\ toIssue = 1
    /\ challenge = NoData
    /\ derived = [done |-> FALSE, entry |-> 0, pricing |-> <<>>, resource |-> ""]

NextSetup ==
    \/ Setup
    \/ NextConcurrent

SpecSetup == InitSetup /\ [][NextSetup]_vars

----------------------------------------------------------------------------
(* C11 *)

\* C11: every call of withPay402Interceptor on a client registers its two
\* pairs, the x402 pair and then the pay402 pair, after those already there:
\* two calls leave four response interceptors, none skipped, replaced or
\* merged.
C11_EverySetupRegisters ==
    /\ Len(interceptors) = 2 * setups
    /\ \A i \in DOMAIN interceptors :
         interceptors[i] = IF i % 2 = 1 THEN "x402" ELSE "pay402"

\* The client was wrapped twice and a request has gone through all four
\* pairs, both pay402 handlers included.
C11_Witness ==
    /\ setups = 2
    /\ interceptors = <<"x402", "pay402", "x402", "pay402">>
    /\ \E c \in DOMAIN calls :
         /\ calls[c].chain = interceptors
         /\ calls[c].pc = "done"
         /\ Cardinality({a \in DOMAIN acts : acts[a].call = c}) = 2

----------------------------------------------------------------------------
(* C12 *)

\* C12: once the payer has been called the flow runs to a terminal outcome;
\* the outcome of the re-issued request is terminal and triggers no further
\* handling: a re-issued request never waits for a payer or for a retry of
\* its own.
C12_RetryIsTerminal ==
    \A c \in DOMAIN calls :
        calls[c].depth > 0 => calls[c].pc \notin {"signing", "retrying"}

----------------------------------------------------------------------------
(* C13 *)

\* C13: whenever the payer resolves with a token the request is re-issued
\* with it; the handler never ends by rejecting with the original 402 after
\* the payment succeeded.
C13_PaidMeansRetried ==
    \A a \in DOMAIN acts :
        acts[a].payer = "resolved" =>
            /\ acts[a].retry # 0
            /\ acts[a].out # Rejected(acts[a].err)

----------------------------------------------------------------------------
(* C14 *)

\* Digits with at most one decimal point, and a digit at least.
IsDecimal(amount) ==
    /\ \A i \in DOMAIN amount : amount[i] \in AmountChars
    /\ \E i \in DOMAIN amount : amount[i] # "."
    /\ Cardinality({i \in DOMAIN amount : amount[i] = "."}) <= 1

\* C14: the PAY option is emitted only for "Send", whitespace, a number of
\* digits with at most one decimal point, whitespace, "PAY", with that
\* number as its amount; a number part with two or more decimal points, or
\* without a digit, yields no PAY option.
C14_DecimalAmountOnly ==
    derived.done =>
        \A o \in DOMAIN derived.pricing :
            derived.pricing[o].currency = PayLit
                => IsDecimal(derived.pricing[o].amount)

----------------------------------------------------------------------------
(* C15 *)

\* The options the two rules give for an entry, each rule on its own, with
\* the given label on the asset option.
RuleByRule(opt, label) ==
    (IF amountMatch(opt.description).matched
     THEN << [amount |-> amountMatch(opt.description).group,
              currency |-> PayLit, payTo |-> opt.payTo] >>
     ELSE << >>)
    \o
    (IF opt.maxAmountRequired # Empty /\ opt.asset # Empty
     THEN << [amount |-> opt.maxAmountRequired, currency |-> label,
              payTo |-> opt.payTo] >>
     ELSE << >>)

\* The rules an entry satisfies.
RulesSatisfied(opt) ==
    (IF amountMatch(opt.description).matched THEN 1 ELSE 0)
    + (IF opt.maxAmountRequired # Empty /\ opt.asset # Empty THEN 1 ELSE 0)

\* C15 as stated: the asset option is emitted exactly when amount and asset
\* are both non-empty, the PAY option exactly when the pattern matched, each
\* whatever the other does; the PAY option comes first; the asset option is
\* labelled with extra.name if present, else with the asset.
C15_RulesLabelIfPresent ==
    derived.done /\ derived.entry > 0 =>
        /\ Len(derived.pricing) = RulesSatisfied(MatchedEntry)
        /\ derived.pricing =
             RuleByRule(MatchedEntry,
                        IF MatchedEntry.extra.hasName
                        THEN MatchedEntry.extra.name
                        ELSE MatchedEntry.asset)

\* C15 as amended: the same, the asset option labelled with extra.name if
\* it is present and not empty, else with the asset.
C15_RulesLabelIfNonEmpty ==
    derived.done /\ derived.entry > 0 =>
        /\ Len(derived.pricing) = RulesSatisfied(MatchedEntry)
        /\ derived.pricing =
             RuleByRule(MatchedEntry,
                        IF MatchedEntry.extra.hasName
                           /\ MatchedEntry.extra.name # Empty
                        THEN MatchedEntry.extra.name
                        ELSE MatchedEntry.asset)

\* The second rule alone: no PAY amount in the description, and the one
\* option is the required amount under the raw asset identifier.
C15_Witness ==
    /\ derived.done
    /\ derived.entry > 0
    /\ ~amountMatch(MatchedEntry.description).matched
    /\ derived.pricing =
         << [amount |-> Amount14000, currency |-> AssetId,
             payTo |-> MatchedEntry.payTo] >>

----------------------------------------------------------------------------
(* C16 *)

\* Config after differs from config before in the x-pay402 header alone.
OnlyPaymentAdded(before, after) ==
    /\ after.method = before.method
    /\ after.url = before.url
    /\ after.data = before.data
    /\ after.headers.hasHeaders
    /\ Field(after.headers, "x-pay402") \in Tokens
    /\ \A h \in HeaderNames \ {"x-pay402"} :
         Field(after.headers, h) = Field(before.headers, h)

\* C16: the handler changes the request descriptor only when it re-issues
\* the request, and then only its x-pay402 header; when it defers and when
\* the payer rejects, method, URL, body and headers stay as they were.
C16_OnlyRetryTouchesConfig ==
    [][ \A c \in DOMAIN calls :
            calls'[c].config # calls[c].config =>
                /\ calls[c].pc = "signing"
                /\ calls'[c].pc = "retrying"
                /\ OnlyPaymentAdded(calls[c].config, calls'[c].config)
                /\ calls'[Len(calls')].sent = calls'[c].config ]_vars

\* A request with headers of its own was re-issued: its descriptor has the
\* token and still has its accept header, its method, URL and body.
C16_Witness ==
    \E a \in DOMAIN acts :
        /\ acts[a].retry # 0
        /\ Field(acts[a].before.headers, "accept") = "xml"
        /\ Field(calls[acts[a].call].config.headers, "accept") = "xml"
        /\ Field(calls[acts[a].call].config.headers, "x-pay402") = acts[a].token
        /\ acts[a].before.headers # calls[acts[a].call].config.headers
        /\ calls[acts[a].call].config.method = "POST"
        /\ calls[acts[a].call].config.data = "body"

============================================================================
